---- MODULE Spec2Model ----
(***************************************************************************)
(* zeabur-env-sync: synchronisation of environment variables from a        *)
(* VaultHub vault to a Zeabur service.                                     *)
(*                                                                         *)
(*   utils.ts  (src/unnamed/part_002)  parseEnvToVariables, compareVariables*)
(*   index.ts  (src/unnamed/part_001)  runSync, runSyncWithErrorHandling,   *)
(*                                     startScheduler, main                 *)
(*   zeabur.ts (src/zeabur.ts)         getZeaburVariables,                  *)
(*                                     updateZeaburVariables,               *)
(*                                     restartZeaburService                 *)
(*   notifier/ (src/notifier/)         createNotificationPayload,           *)
(*                                     sendNotification, BarkNotifier       *)
(*                                                                         *)
(* Six specifications are given.  SpecDiff applies compareVariables to     *)
(* every pair of bounded snapshots, SpecParse applies parseEnvToVariables  *)
(* to every bounded payload.  Spec is the running program: main, the       *)
(* scheduler's ticks, and every sync cycle cut at its await points.        *)
(* SpecOps calls the collaborator operations on their own, and SpecNotify  *)
(* calls sendNotification, under every environment.  SpecPayload applies   *)
(* createNotificationPayload to every bounded diff and outcome.            *)
(***************************************************************************)
EXTENDS Integers, Sequences, FiniteSets, TLC

(***************************************************************************)
(* Bounds                                                                  *)
(***************************************************************************)
\* longest snapshot given to compareVariables in SpecDiff
MaxLen == 2
\* longest vault payload (number of KEY=VALUE lines) in Spec
MaxLines == 2
\* number of scheduler ticks followed in Spec
MaxTicks == 2
\* number of times the vault's content is edited while the program runs
MaxEdits == 1

MaxOps == 2
\* longest list of the diff given to createNotificationPayload in SpecPayload
MaxChanges == 2

\* keys and values of the snapshots of SpecDiff; "A" and "a" differ by case only
DiffKeys == {"A", "a", "B"}
\* keys of the payloads of SpecParse: an array index, and the empty key, which
\* dotenv's own line pattern never yields and the parser's filter drops
ParseKeys == {"A", "B", "7", ""}
\* keys of the platform and of the vault in Spec
SyncKeys == {"A", "B"}
Values == {"1", "2"}

(***************************************************************************)
(* type.ts: EnvironmentVariable, VariablesDiff                             *)
(***************************************************************************)
EnvironmentVariable(id, k, v) == [_id |-> id, key |-> k, value |-> v]

VariablesDiff(add, upd, del) == [toAdd |-> add, toUpdate |-> upd, toDelete |-> del]

\* the set of keys of a snapshot
KeysOf(s) == {s[i].key : i \in 1..Len(s)}

\* the (key, value) pairs of a snapshot
PairsOf(s) == {<<s[i].key, s[i].value>> : i \in 1..Len(s)}

UniqueKeys(s) == \A i, j \in 1..Len(s) : s[i].key = s[j].key => i = j

(***************************************************************************)
(* The JavaScript Map: entries <<key, value>> in insertion order; set() on *)
(* a key already present replaces the value and keeps the position.        *)
(***************************************************************************)
MapHas(m, k) == \E i \in 1..Len(m) : m[i][1] = k

MapGet(m, k) == m[CHOOSE i \in 1..Len(m) : m[i][1] = k][2]

\* the first value of a key kept
MapSet_firstWins(m, k, v) == IF MapHas(m, k) THEN m ELSE Append(m, <<k, v>>)

MapSet(m, k, v) ==
    IF MapHas(m, k)
    THEN [i \in 1..Len(m) |-> IF m[i][1] = k THEN <<k, v>> ELSE m[i]]
    ELSE Append(m, <<k, v>>)

RECURSIVE NewMapFrom(_, _, _)
NewMapFrom(entries, i, m) ==
    IF i > Len(entries) THEN m
    ELSE NewMapFrom(entries, i + 1, MapSet(m, entries[i][1], entries[i][2]))

NewMap(entries) == NewMapFrom(entries, 1, << >>)

(***************************************************************************)
(* utils.ts: compareVariables                                              *)
(***************************************************************************)
\* !currentVar after currentMap.get(key): the key is absent from current
NotInCurrent(currentMap, key) == ~MapHas(currentMap, key)

\* currentVar.value !== desiredVar.value
ValueDiffers_ids(currentVar, desiredVar) ==
    currentVar.value # desiredVar.value \/ currentVar._id # desiredVar._id

ValueDiffers_never(currentVar, desiredVar) == FALSE

ValueDiffers(currentVar, desiredVar) == currentVar.value # desiredVar.value

\* the entry pushed to toUpdate
UpdateEntry(key, currentVar, desiredVar) ==
    [key |-> key, oldValue |-> currentVar.value, newValue |-> desiredVar.value]

\* !desiredMap.has(key)
NotInDesired_always(desiredMap, key) == TRUE

NotInDesired_never(desiredMap, key) == FALSE

NotInDesired(desiredMap, key) == ~MapHas(desiredMap, key)

\* for (const [key, desiredVar] of desiredMap) { ... }
RECURSIVE AddUpdateLoop(_, _, _, _)
AddUpdateLoop(desiredMap, currentMap, i, acc) ==
    IF i > Len(desiredMap) THEN acc
    ELSE LET key == desiredMap[i][1]
             desiredVar == desiredMap[i][2]
         IN  IF NotInCurrent(currentMap, key)
             THEN AddUpdateLoop(desiredMap, currentMap, i + 1,
                                [acc EXCEPT !.toAdd = Append(@, desiredVar)])
             ELSE IF ValueDiffers(MapGet(currentMap, key), desiredVar)
             THEN AddUpdateLoop(desiredMap, currentMap, i + 1,
                                [acc EXCEPT !.toUpdate =
                                    Append(@, UpdateEntry(key, MapGet(currentMap, key),
                                                          desiredVar))])
             ELSE AddUpdateLoop(desiredMap, currentMap, i + 1, acc)

\* for (const [key, currentVar] of currentMap) { ... }
RECURSIVE DeleteLoop(_, _, _, _)
DeleteLoop(currentMap, desiredMap, i, acc) ==
    IF i > Len(currentMap) THEN acc
    ELSE IF NotInDesired(desiredMap, currentMap[i][1])
    THEN DeleteLoop(currentMap, desiredMap, i + 1,
                    [acc EXCEPT !.toDelete = Append(@, currentMap[i][2])])
    ELSE DeleteLoop(currentMap, desiredMap, i + 1, acc)

compareVariables(current, desired) ==
    LET currentMap == NewMap([i \in 1..Len(current) |-> <<current[i].key, current[i]>>])
        desiredMap == NewMap([i \in 1..Len(desired) |-> <<desired[i].key, desired[i]>>])
        empty == VariablesDiff(<< >>, << >>, << >>)
    IN  DeleteLoop(currentMap, desiredMap, 1,
                   AddUpdateLoop(desiredMap, currentMap, 1, empty))

\* diff.toAdd.length + diff.toUpdate.length + diff.toDelete.length
TotalChanges(diff) == Len(diff.toAdd) + Len(diff.toUpdate) + Len(diff.toDelete)

(***************************************************************************)
(* Inputs of SpecDiff: every snapshot of at most MaxLen records, keys not  *)
(* necessarily unique.  Identifiers are given by position and the two      *)
(* sides use different identifiers, as the platform's object ids and the   *)
(* parser's counters do.                                                   *)
(***************************************************************************)
SeqsUpTo(S, n) == UNION {[1..m -> S] : m \in 0..n}

PlatformId(i) == "z" \o ToString(i)

ParserId(i) == ToString(i)

CurrentSnapshots ==
    {[i \in 1..Len(l) |-> EnvironmentVariable(PlatformId(i), l[i][1], l[i][2])] :
        l \in SeqsUpTo(DiffKeys \X Values, MaxLen)}

DesiredSnapshots ==
    {[i \in 1..Len(l) |-> EnvironmentVariable(ParserId(i), l[i][1], l[i][2])] :
        l \in SeqsUpTo(DiffKeys \X Values, MaxLen)}

(***************************************************************************)
(* utils.ts: parseEnvToVariables.  The payload is seen as its sequence of  *)
(* KEY=VALUE assignments <<key, value>>.                                   *)
(***************************************************************************)
\* dotenv.parse: obj[key] = value for each assignment in turn; a later
\* assignment of a key overwrites the value and keeps the key's place
RECURSIVE dotenvParseFrom(_, _, _)
dotenvParseFrom(lines, i, obj) ==
    IF i > Len(lines) THEN obj
    ELSE dotenvParseFrom(lines, i + 1, MapSet(obj, lines[i][1], lines[i][2]))

dotenvParse(lines) == dotenvParseFrom(lines, 1, << >>)

\* Object.entries(parsed): the keys that are array indices come first (the
\* model has one, "7"), the other keys follow in the order of their creation
IsArrayIndex(key) == key = "7"

ObjectEntries(obj) ==
    SelectSeq(obj, LAMBDA e : IsArrayIndex(e[1])) \o
    SelectSeq(obj, LAMBDA e : ~IsArrayIndex(e[1]))

\* .filter(([key, value]) => key && value !== undefined)
KeepEntry(entry) == entry[1] # ""

\* let id = 1; ... .map(([key, value]) => ({ _id: String(id++), key, value }))
RECURSIVE MapWithIds(_, _, _, _)
MapWithIds(entries, i, id, acc) ==
    IF i > Len(entries) THEN acc
    ELSE MapWithIds(entries, i + 1, id + 1,
                    Append(acc, EnvironmentVariable(ToString(id), entries[i][1],
                                                    entries[i][2])))

\* the identifiers given before the filter, so that a skipped entry takes one
parseEnvToVariables_mapThenFilter(envContent) ==
    LET all == MapWithIds(ObjectEntries(dotenvParse(envContent)), 1, 1, << >>)
    IN  SelectSeq(all, LAMBDA v : v.key # "")

parseEnvToVariables(envContent) ==
    MapWithIds(SelectSeq(ObjectEntries(dotenvParse(envContent)), KeepEntry), 1, 1, << >>)

(***************************************************************************)
(* zeabur.ts                                                               *)
(***************************************************************************)
\* createZeaburClient: !ZEABUR_API_KEY || !ZEABUR_SERVICE_ID || !ZEABUR_ENV_ID
MissingZeaburEnv_keyOnly(e) == e.ZEABUR_API_KEY = ""

MissingZeaburEnv(e) ==
    e.ZEABUR_API_KEY = "" \/ e.ZEABUR_SERVICE_ID = "" \/ e.ZEABUR_ENV_ID = ""

\* getZeaburVariables: data.service.variables.map(v => ({_id, key, value}))
MinimalFields(variables) ==
    [i \in 1..Len(variables) |->
        EnvironmentVariable(variables[i]._id, variables[i].key, variables[i].value)]

\* updateZeaburVariables: new Map(variables.map(v => [v.key, v.value]))
DataMap(variables) ==
    NewMap([i \in 1..Len(variables) |-> <<variables[i].key, variables[i].value>>])

\* client.request(updateVariablesMutation, {serviceId, envId, data}): the
\* variables go into the request body through JSON.stringify.  A Map keeps
\* its entries in internal slots and has no own enumerable property, so
\* JSON.stringify writes it as the empty object {} whatever it holds.  A
\* JSON object is modelled as its sequence of <<name, value>> members.
JSONStringifyMap(data) == << >>

\* the platform's updateEnvironmentVariable(data: Map!), applying the
\* submitted object by key: a key it holds gets the submitted value, a key
\* it does not hold is created, a key that is not submitted is left alone
RECURSIVE updateEnvironmentVariable(_, _, _)
updateEnvironmentVariable(variables, data, i) ==
    IF i > Len(data) THEN variables
    ELSE LET k == data[i][1]
             v == data[i][2]
         IN  IF k \in KeysOf(variables)
             THEN updateEnvironmentVariable(
                      [j \in 1..Len(variables) |->
                          IF variables[j].key = k
                          THEN [variables[j] EXCEPT !.value = v]
                          ELSE variables[j]], data, i + 1)
             ELSE updateEnvironmentVariable(
                      Append(variables,
                             [_id |-> PlatformId(Len(variables) + 1), key |-> k,
                              value |-> v, readonly |-> FALSE]), data, i + 1)

(***************************************************************************)
(* State                                                                   *)
(***************************************************************************)
VARIABLES
    dpc,        \* SpecDiff: "input" before the call of compareVariables, "done" after
    dcurrent,   \* SpecDiff: the argument current
    ddesired,   \* SpecDiff: the argument desired
    ddiff,      \* SpecDiff: the VariablesDiff returned
    dreverse,   \* SpecDiff: the VariablesDiff of the call with the arguments exchanged
    env,        \* Bun.env: the process environment, fixed for the process
    platform,   \* the variables the Zeabur service holds
    vault,      \* the vault VaultHub returns: [hasValue, value]
    mainPc,     \* "start", "single", "scheduled", "exited"
    exitCode,   \* the status the process exited with, -1 while it runs
    baker,      \* the scheduler: "none", "running", "stopped"
    ticks,      \* cron ticks fired so far
    skipped,    \* cron ticks whose callback was not run
    runs,       \* the sync cycles started so far, one record each
    vaultEdits, \* the number of edits of the vault's content so far
    ppc,        \* SpecParse: "input", "once", "twice": calls of parseEnvToVariables
    ppayload,   \* SpecParse: the payload, a sequence of assignments <<key, value>>
    pfirst,     \* SpecParse: the snapshot returned by the first call
    psecond,    \* SpecParse: the snapshot returned by the second call
    ops,        \* SpecOps: the collaborator operations called, one record each
    nenv,       \* SpecNotify: Bun.env, the settings of the Bark provider
    npc,        \* SpecNotify: "idle", "awaitSends", "returned", "thrown"
    npayload,   \* SpecNotify: the NotificationPayload given to sendNotification
    providers,  \* SpecNotify: the array providers of sendNotification
    results,    \* SpecNotify: one record for each provider.send(payload)
    logged,     \* SpecNotify: the indices of the failures sendNotification logs
    cpc,        \* SpecPayload: "input" before createNotificationPayload, "done" after
    cdiff,      \* SpecPayload: the argument diff
    csuccess,   \* SpecPayload: the argument success
    cerror,     \* SpecPayload: the argument error: [given, message]
    cnow,       \* SpecPayload: what new Date().toISOString() gives
    cpayload    \* SpecPayload: the NotificationPayload returned

dvars == <<dpc, dcurrent, ddesired, ddiff, dreverse>>

pvars == <<ppc, ppayload, pfirst, psecond>>

opvars == <<ops>>

nvars == <<nenv, npc, npayload, providers, results, logged>>

\* the variables of the specifications of single functions other than SpecDiff
cvars == <<cpc, cdiff, csuccess, cerror, cnow, cpayload>>

ovars == <<pvars, opvars, nvars, cvars>>

svars == <<env, platform, vault, mainPc, exitCode, baker, ticks, skipped, runs,
           vaultEdits>>

vars == <<dpc, dcurrent, ddesired, ddiff, dreverse,
          env, platform, vault, mainPc, exitCode, baker, ticks, skipped, runs,
          vaultEdits,
          ppc, ppayload, pfirst, psecond,
          ops, nenv, npc, npayload, providers, results, logged,
          cpc, cdiff, csuccess, cerror, cnow, cpayload>>

NoDiff == VariablesDiff(<< >>, << >>, << >>)

\* the state of the program when SpecDiff runs: not started
Idle ==
    /\ env = [ZEABUR_API_KEY |-> "", ZEABUR_SERVICE_ID |-> "", ZEABUR_ENV_ID |-> "",
              VAULT_HUB |-> FALSE, CRON_SCHEDULE |-> ""]
    /\ platform = << >>
    /\ vault = [hasValue |-> FALSE, value |-> << >>]
    /\ mainPc = "start"
    /\ exitCode = -1
    /\ baker = "none"
    /\ ticks = 0
    /\ skipped = 0
    /\ runs = << >>
    /\ vaultEdits = 0

\* SpecDiff not started
IdleDiff ==
    /\ dpc = "input"
    /\ dcurrent = << >>
    /\ ddesired = << >>
    /\ ddiff = NoDiff
    /\ dreverse = NoDiff

\* SpecParse not started
IdleParse ==
    /\ ppc = "input"
    /\ ppayload = << >>
    /\ pfirst = << >>
    /\ psecond = << >>

\* SpecOps not started
IdleOps == ops = << >>

\* SpecNotify not started
IdleNotify ==
    /\ nenv = [BARK_KEY |-> "", BARK_SERVER_URL |-> << >>, BARK_SOUND |-> "",
               BARK_GROUP |-> ""]
    /\ npc = "idle"
    /\ npayload = [title |-> "", body |-> ""]
    /\ providers = << >>
    /\ results = << >>
    /\ logged = << >>

\* SpecPayload not started
IdleCreate ==
    /\ cpc = "input"
    /\ cdiff = NoDiff
    /\ csuccess = FALSE
    /\ cerror = [given |-> FALSE, message |-> ""]
    /\ cnow = ""
    /\ cpayload = << >>

DiffInit ==
    /\ dpc = "input"
    /\ dcurrent \in CurrentSnapshots
    /\ ddesired \in DesiredSnapshots
    /\ ddiff = NoDiff
    /\ dreverse = NoDiff
    /\ Idle
    /\ IdleParse
    /\ IdleOps
    /\ IdleNotify
    /\ IdleCreate

Compare ==
    /\ dpc = "input"
    /\ ddiff' = compareVariables(dcurrent, ddesired)
    /\ dpc' = "done"
    /\ UNCHANGED <<dcurrent, ddesired, dreverse>>
    /\ UNCHANGED <<svars, ovars>>

\* a second call, with the two snapshots exchanged
CompareReversed ==
    /\ dpc = "done"
    /\ dreverse' = compareVariables(ddesired, dcurrent)
    /\ dpc' = "reversed"
    /\ UNCHANGED <<dcurrent, ddesired, ddiff>>
    /\ UNCHANGED <<svars, ovars>>

DiffNext == Compare \/ CompareReversed

SpecDiff == DiffInit /\ [][DiffNext]_vars

(***************************************************************************)
(* Claims on compareVariables (SpecDiff)                                   *)
(***************************************************************************)
DiffDone == dpc = "done" /\ UniqueKeys(dcurrent) /\ UniqueKeys(ddesired)

\* the value a unique-keyed snapshot holds for a key it contains
ValueIn(s, k) == s[CHOOSE i \in 1..Len(s) : s[i].key = k].value

SameValue(k) ==
    /\ k \in KeysOf(dcurrent)
    /\ k \in KeysOf(ddesired)
    /\ ValueIn(dcurrent, k) = ValueIn(ddesired, k)

\* C1: for snapshots with unique keys, compareVariables puts every key of the
\* union of both key sets in exactly one of toAdd, toUpdate, toDelete or in
\* none: the lists share no key, no list holds a key twice, the lists hold
\* only keys of the union, and a key is in no list exactly when both
\* snapshots hold it with the same value.
C1_DiffPartition ==
    DiffDone =>
        LET A == KeysOf(ddiff.toAdd)
            U == KeysOf(ddiff.toUpdate)
            D == KeysOf(ddiff.toDelete)
        IN  /\ A \cap U = {} /\ A \cap D = {} /\ U \cap D = {}
            /\ UniqueKeys(ddiff.toAdd)
            /\ UniqueKeys(ddiff.toUpdate)
            /\ UniqueKeys(ddiff.toDelete)
            /\ A \cup U \cup D \subseteq KeysOf(dcurrent) \cup KeysOf(ddesired)
            /\ \A k \in KeysOf(dcurrent) \cup KeysOf(ddesired) :
                   (k \notin A \cup U \cup D) <=> SameValue(k)

\* a diff with one addition next to a key left unchanged
C1_Witness ==
    /\ DiffDone
    /\ Len(ddiff.toAdd) = 1
    /\ \E k \in KeysOf(dcurrent) : SameValue(k)

\* the reference diff, by membership in the other snapshot's key set
RefToAdd == SelectSeq(ddesired, LAMBDA r : r.key \notin KeysOf(dcurrent))

RefChanged ==
    SelectSeq(ddesired, LAMBDA r : r.key \in KeysOf(dcurrent)
                                   /\ ValueIn(dcurrent, r.key) # r.value)

RefToUpdate ==
    [i \in 1..Len(RefChanged) |->
        [key |-> RefChanged[i].key,
         oldValue |-> ValueIn(dcurrent, RefChanged[i].key),
         newValue |-> RefChanged[i].value]]

RefToDelete == SelectSeq(dcurrent, LAMBDA r : r.key \notin KeysOf(ddesired))

\* C2: for snapshots with unique keys, toAdd is the desired records whose key
\* is absent from current, toUpdate is one {key, oldValue, newValue} for each
\* key held by both with different values, toDelete is the current records
\* whose key is absent from desired; records are whole, keys are matched
\* exactly ("A" is not "a") and identifiers are not compared.
C2_DiffReference ==
    DiffDone =>
        /\ ddiff.toAdd = RefToAdd
        /\ ddiff.toUpdate = RefToUpdate
        /\ ddiff.toDelete = RefToDelete

\* "A" deleted, "a" added, "B" updated: the three lists at once, with two
\* keys that differ by case only
C2_Witness ==
    /\ DiffDone
    /\ KeysOf(ddiff.toDelete) = {"A"}
    /\ KeysOf(ddiff.toAdd) = {"a"}
    /\ KeysOf(ddiff.toUpdate) = {"B"}

\* C21: for snapshots a and b with unique keys, the keys compareVariables(a, b)
\* adds are the keys compareVariables(b, a) deletes, and the other way
\* round, and the two calls update the same keys, the old value of the one
\* being the new value of the other.
UpdatesOf(diff) ==
    {<<diff.toUpdate[i].key, diff.toUpdate[i].oldValue, diff.toUpdate[i].newValue>> :
        i \in 1..Len(diff.toUpdate)}

Exchanged(updates) == {<<u[1], u[3], u[2]>> : u \in updates}

C21_DiffSymmetry ==
    (dpc = "reversed" /\ UniqueKeys(dcurrent) /\ UniqueKeys(ddesired)) =>
        /\ KeysOf(ddiff.toAdd) = KeysOf(dreverse.toDelete)
        /\ KeysOf(ddiff.toDelete) = KeysOf(dreverse.toAdd)
        /\ UpdatesOf(dreverse) = Exchanged(UpdatesOf(ddiff))
        /\ Len(dreverse.toUpdate) = Len(ddiff.toUpdate)

\* an addition, a deletion and an update, seen from both sides
C21_Witness ==
    /\ dpc = "reversed"
    /\ KeysOf(ddiff.toAdd) = {"a"} /\ KeysOf(dreverse.toDelete) = {"a"}
    /\ KeysOf(ddiff.toDelete) = {"A"} /\ KeysOf(dreverse.toAdd) = {"A"}
    /\ UpdatesOf(ddiff) = {<<"B", "1", "2">>}
    /\ UpdatesOf(dreverse) = {<<"B", "2", "1">>}

\* C22: for snapshots with unique keys, the three lists of the diff are
\* empty exactly when the two snapshots hold the same (key, value) pairs,
\* whatever the identifiers and the order of their records; the diff of two
\* empty snapshots is the diff with three empty lists.
C22_EqualSnapshotsEmptyDiff ==
    DiffDone =>
        /\ PairsOf(dcurrent) = PairsOf(ddesired) <=>
               (ddiff.toAdd = << >> /\ ddiff.toUpdate = << >> /\ ddiff.toDelete = << >>)
        /\ (dcurrent = << >> /\ ddesired = << >>) =>
               ddiff = [toAdd |-> << >>, toUpdate |-> << >>, toDelete |-> << >>]

\* the same two pairs in the opposite order and under other identifiers
C22_Witness ==
    /\ DiffDone
    /\ Len(dcurrent) = 2
    /\ PairsOf(dcurrent) = PairsOf(ddesired)
    /\ dcurrent[1].key = ddesired[2].key
    /\ dcurrent[1]._id # ddesired[2]._id
    /\ TotalChanges(ddiff) = 0

(***************************************************************************)
(* SpecParse: parseEnvToVariables called twice on every payload of at most *)
(* MaxLines assignments.                                                   *)
(***************************************************************************)
Payloads == SeqsUpTo(ParseKeys \X Values, MaxLines)

ParseInit ==
    /\ ppc = "input"
    /\ ppayload \in Payloads
    /\ pfirst = << >>
    /\ psecond = << >>
    /\ Idle
    /\ IdleDiff
    /\ IdleOps
    /\ IdleNotify
    /\ IdleCreate

ParseOnce ==
    /\ ppc = "input"
    /\ pfirst' = parseEnvToVariables(ppayload)
    /\ ppc' = "once"
    /\ UNCHANGED <<ppayload, psecond>>
    /\ UNCHANGED <<dvars, svars, opvars, nvars, cvars>>

ParseAgain ==
    /\ ppc = "once"
    /\ psecond' = parseEnvToVariables(ppayload)
    /\ ppc' = "twice"
    /\ UNCHANGED <<ppayload, pfirst>>
    /\ UNCHANGED <<dvars, svars, opvars, nvars, cvars>>

ParseNext == ParseOnce \/ ParseAgain

SpecParse == ParseInit /\ [][ParseNext]_vars

\* the assignments of the payload that have a key
Assigned == {i \in 1..Len(ppayload) : ppayload[i][1] # ""}

\* the last assignment of a key
LastAssignment(k) ==
    CHOOSE i \in Assigned :
        ppayload[i][1] = k /\ \A j \in Assigned : ppayload[j][1] = k => j <= i

\* C16: the snapshot parseEnvToVariables returns holds each key once, holds
\* no empty key, holds exactly the keys assigned in the payload, each with the
\* value of its last assignment; a second parse of the payload returns the
\* same (key, value) pairs.
C16_ParserLastWins ==
    /\ ppc # "input" =>
           /\ UniqueKeys(pfirst)
           /\ "" \notin KeysOf(pfirst)
           /\ KeysOf(pfirst) = {ppayload[i][1] : i \in Assigned}
           /\ \A n \in 1..Len(pfirst) :
                  pfirst[n].value = ppayload[LastAssignment(pfirst[n].key)][2]
    /\ ppc = "twice" => PairsOf(psecond) = PairsOf(pfirst)

\* "A=1\nA=2": one record, A=2
C16_Witness ==
    /\ ppc = "twice"
    /\ ppayload = << <<"A", "1">>, <<"A", "2">> >>
    /\ PairsOf(pfirst) = {<<"A", "2">>}
    /\ Len(pfirst) = 1

\* C20: the records parseEnvToVariables returns carry the identifiers "1",
\* "2", ..., "n" in their order, n being the number of keys that survive the
\* filter; an entry that is skipped takes no identifier, and no identifier
\* occurs twice.
C20_ParserIds ==
    ppc # "input" =>
        /\ Len(pfirst) = Cardinality({ppayload[i][1] : i \in Assigned})
        /\ \A n \in 1..Len(pfirst) : pfirst[n]._id = ToString(n)
        /\ \A n, m \in 1..Len(pfirst) : pfirst[n]._id = pfirst[m]._id => n = m

\* an entry with the empty key is skipped before a key that survives
C20_Witness ==
    /\ ppc = "once"
    /\ Len(ppayload) = 2
    /\ ppayload[1][1] = ""
    /\ Len(pfirst) = 1
    /\ pfirst[1]._id = "1"

(***************************************************************************)
(* index.ts: one sync cycle.  A cycle is a record; runSync is cut at its   *)
(* four awaits, and each step below runs the code from the settling of one *)
(* awaited request up to the next request, as the event loop does.         *)
(*                                                                         *)
(*   pc        "awaitRead", "awaitVault", "awaitApply", "awaitRestart",    *)
(*             "returned", "thrown"                                        *)
(*   calls     the collaborator operations invoked, in order               *)
(*   requests  the network requests issued, in order, with their status    *)
(*   result    "pending", "undefined" (return;), "object" (return {...}),  *)
(*             "error"                                                     *)
(*   report    the lines of the diff report printed on the console          *)
(*   reportAt  the number of collaborator calls made when it was printed    *)
(***************************************************************************)
NewRun ==
    [pc |-> "start", calls |-> << >>, requests |-> << >>,
     existingVariables |-> << >>,
     vaultVariables |-> [hasValue |-> FALSE, value |-> << >>],
     parsedVaultVariables |-> << >>,
     diff |-> NoDiff, reported |-> FALSE, report |-> << >>, reportAt |-> 0,
     applyArg |-> << >>, data |-> << >>, body |-> << >>,
     result |-> "pending", error |-> "", caught |-> ""]

Called(r, op) == [r EXCEPT !.calls = Append(@, op)]

Requested(r, op, nextPc) ==
    [r EXCEPT !.requests = Append(@, [op |-> op, status |-> "pending"]), !.pc = nextPc]

\* the pending request settles
Settled(r, ok) ==
    [r EXCEPT !.requests[Len(r.requests)].status = IF ok THEN "ok" ELSE "error"]

Throw(r, kind) == [r EXCEPT !.pc = "thrown", !.result = "error", !.error = kind]

\* getZeaburVariables(): createZeaburClient() throws before any request
CallGetZeaburVariables(r) ==
    LET r1 == Called(r, "getZeaburVariables")
    IN  IF MissingZeaburEnv(env) THEN Throw(r1, "config")
        ELSE Requested(r1, "getVariables", "awaitRead")

\* getVaultHubVault(): credentials are validated before the request
CallGetVaultHubVault(r) ==
    LET r1 == Called(r, "getVaultHubVault")
    IN  IF ~env.VAULT_HUB THEN Throw(r1, "config")
        ELSE Requested(r1, "getVault", "awaitVault")

\* updateZeaburVariables(parsedVaultVariables)
CallUpdateZeaburVariables(r) ==
    LET r1 == [Called(r, "updateZeaburVariables") EXCEPT
                  !.applyArg = r.parsedVaultVariables]
    IN  IF MissingZeaburEnv(env) THEN Throw(r1, "config")
        ELSE Requested([r1 EXCEPT !.data = DataMap(r1.applyArg),
                                  !.body = JSONStringifyMap(DataMap(r1.applyArg))],
                       "updateVariables", "awaitApply")

\* restartZeaburService()
CallRestartZeaburService(r) ==
    LET r1 == Called(r, "restartZeaburService")
    IN  IF MissingZeaburEnv(env) THEN Throw(r1, "config")
        ELSE Requested(r1, "restartService", "awaitRestart")

\* runSync, from its call to the first await
StartRunSync == CallGetZeaburVariables(NewRun)

\* const existingVariables = await getZeaburVariables();
\* const vaultVariables = await getVaultHubVault();
AfterRead_swallow(r, ok) ==
    CallGetVaultHubVault(
        [Settled(r, ok) EXCEPT !.existingVariables =
            IF ok THEN MinimalFields(platform) ELSE << >>])

AfterRead_retry(r, ok) ==
    IF ~ok THEN CallGetZeaburVariables(Settled(r, ok))
    ELSE CallGetVaultHubVault(
             [Settled(r, ok) EXCEPT !.existingVariables = MinimalFields(platform)])

AfterRead(r, ok) ==
    IF ~ok THEN Throw(Settled(r, ok), "transport")
    ELSE CallGetVaultHubVault(
             [Settled(r, ok) EXCEPT !.existingVariables = MinimalFields(platform)])

\* if (diff.toAdd.length + diff.toUpdate.length + diff.toDelete.length === 0)
NoChangesNeeded_never(diff) == FALSE

NoChangesNeeded(diff) == TotalChanges(diff) = 0

\* console.log of the three lists: one line for each entry
DiffReport_noDeletes(diff) ==
    [i \in 1..Len(diff.toAdd) |->
        [sign |-> "+", key |-> diff.toAdd[i].key,
         old |-> "", new |-> diff.toAdd[i].value]] \o
    [i \in 1..Len(diff.toUpdate) |->
        [sign |-> "~", key |-> diff.toUpdate[i].key,
         old |-> diff.toUpdate[i].oldValue, new |-> diff.toUpdate[i].newValue]]

DiffReport(diff) ==
    [i \in 1..Len(diff.toAdd) |->
        [sign |-> "+", key |-> diff.toAdd[i].key,
         old |-> "", new |-> diff.toAdd[i].value]] \o
    [i \in 1..Len(diff.toUpdate) |->
        [sign |-> "~", key |-> diff.toUpdate[i].key,
         old |-> diff.toUpdate[i].oldValue, new |-> diff.toUpdate[i].newValue]] \o
    [i \in 1..Len(diff.toDelete) |->
        [sign |-> "-", key |-> diff.toDelete[i].key,
         old |-> diff.toDelete[i].value, new |-> ""]]

\* the snapshot an earlier cycle parsed, used again
ParsedVault_cached(r) ==
    IF \E j \in 1..Len(runs) : runs[j].reported
    THEN runs[CHOOSE j \in 1..Len(runs) : runs[j].reported].parsedVaultVariables
    ELSE parseEnvToVariables(r.vaultVariables.value)

\* const parsedVaultVariables = parseEnvToVariables(vaultVariables.value);
ParsedVault(r) == parseEnvToVariables(r.vaultVariables.value)

\* parse, compare, report, and either return or call updateZeaburVariables
AfterVault(r, ok) ==
    IF ~ok THEN Throw(Settled(r, ok), "transport")
    ELSE IF ~vault.hasValue
    THEN Throw([Settled(r, ok) EXCEPT !.vaultVariables = vault], "parse")
    ELSE LET r0 == [Settled(r, ok) EXCEPT !.vaultVariables = vault]
             parsed == ParsedVault(r0)
             diff == compareVariables(r.existingVariables, parsed)
             r1 == [r0 EXCEPT
                       !.parsedVaultVariables = parsed,
                       !.diff = diff,
                       !.reported = TRUE,
                       !.report = DiffReport(diff),
                       !.reportAt = Len(r.calls)]
         IN  IF NoChangesNeeded(r1.diff)
             THEN [r1 EXCEPT !.pc = "returned", !.result = "undefined"]
             ELSE CallUpdateZeaburVariables(r1)

\* const updateResult = await updateZeaburVariables(parsedVaultVariables);
\* const restartResult = await restartZeaburService();
AfterApply_finally(r, ok) == CallRestartZeaburService(Settled(r, ok))

AfterApply(r, ok) ==
    IF ~ok THEN Throw(Settled(r, ok), "transport")
    ELSE CallRestartZeaburService(Settled(r, ok))

\* return { diff, updateResult, restartResult };
AfterRestart(r, ok) ==
    IF ~ok THEN Throw(Settled(r, ok), "transport")
    ELSE [Settled(r, ok) EXCEPT !.pc = "returned", !.result = "object"]

(***************************************************************************)
(* index.ts: main, runSyncWithErrorHandling, startScheduler                *)
(***************************************************************************)
InFlight == {i \in 1..Len(runs) : runs[i].pc \notin {"returned", "thrown"}}

Scheduled == env.CRON_SCHEDULE # ""

\* overrunProtection: true, // Skip if previous sync still running
overrunProtection_off == FALSE

overrunProtection == TRUE

\* what becomes of an error thrown by runSync: main's catch ends the process
\* with status 1, runSyncWithErrorHandling's catch logs it and goes on
OnError_exitAlways(scheduled) == "exit"

OnError_logAlways(scheduled) == "logged"

OnError(scheduled) == IF scheduled THEN "logged" ELSE "exit"

\* the cycle i has run up to its next await, or to its end, as r
Continue(i, r) ==
    LET r1 == IF r.pc = "thrown" THEN [r EXCEPT !.caught = OnError(Scheduled)] ELSE r
    IN  /\ runs' = [j \in 1..(IF i > Len(runs) THEN i ELSE Len(runs)) |->
                       IF j = i THEN r1 ELSE runs[j]]
        /\ IF r1.pc = "thrown" /\ r1.caught = "exit"
           THEN mainPc' = "exited" /\ exitCode' = 1
           ELSE IF r1.pc = "returned" /\ ~Scheduled
           THEN mainPc' = "exited" /\ exitCode' = 0
           ELSE /\ mainPc' = IF Scheduled THEN "scheduled" ELSE "single"
                /\ UNCHANGED exitCode

Alive == mainPc \in {"single", "scheduled"}

\* main: if (!cronSchedule) { try { await runSync(); } catch { exit(1) } }
MainSingle ==
    /\ mainPc = "start"
    /\ ~Scheduled
    /\ Continue(1, StartRunSync)
    /\ UNCHANGED <<env, platform, vault, baker, ticks, skipped, vaultEdits>>
    /\ UNCHANGED <<dvars, ovars>>

\* main: else startScheduler(cronSchedule)
MainScheduled ==
    /\ mainPc = "start"
    /\ Scheduled
    /\ mainPc' = "scheduled"
    /\ baker' = "running"
    /\ UNCHANGED <<env, platform, vault, exitCode, ticks, skipped, runs, vaultEdits>>
    /\ UNCHANGED <<dvars, ovars>>

\* a cron tick whose callback runs: runSyncWithErrorHandling -> runSync
TickRun ==
    /\ mainPc = "scheduled"
    /\ baker = "running"
    /\ ticks < MaxTicks
    /\ ~(overrunProtection /\ InFlight # {})
    /\ ticks' = ticks + 1
    /\ Continue(Len(runs) + 1, StartRunSync)
    /\ UNCHANGED <<env, platform, vault, baker, skipped, vaultEdits>>
    /\ UNCHANGED <<dvars, ovars>>

\* a cron tick that finds the previous callback still running
TickSkip ==
    /\ mainPc = "scheduled"
    /\ baker = "running"
    /\ ticks < MaxTicks
    /\ overrunProtection /\ InFlight # {}
    /\ ticks' = ticks + 1
    /\ skipped' = skipped + 1
    /\ UNCHANGED <<env, platform, vault, mainPc, exitCode, baker, runs, vaultEdits>>
    /\ UNCHANGED <<dvars, ovars>>

ReadReturns(i, ok) ==
    /\ Alive
    /\ runs[i].pc = "awaitRead"
    /\ Continue(i, AfterRead(runs[i], ok))
    /\ UNCHANGED <<env, platform, vault, baker, ticks, skipped, vaultEdits>>
    /\ UNCHANGED <<dvars, ovars>>

VaultReturns(i, ok) ==
    /\ Alive
    /\ runs[i].pc = "awaitVault"
    /\ Continue(i, AfterVault(runs[i], ok))
    /\ UNCHANGED <<env, platform, vault, baker, ticks, skipped, vaultEdits>>
    /\ UNCHANGED <<dvars, ovars>>

\* the platform has applied the request body when the request succeeds
ApplyReturns(i, ok) ==
    /\ Alive
    /\ runs[i].pc = "awaitApply"
    /\ platform' = IF ok THEN updateEnvironmentVariable(platform, runs[i].body, 1)
                   ELSE platform
    /\ Continue(i, AfterApply(runs[i], ok))
    /\ UNCHANGED <<env, vault, baker, ticks, skipped, vaultEdits>>
    /\ UNCHANGED <<dvars, ovars>>

RestartReturns(i, ok) ==
    /\ Alive
    /\ runs[i].pc = "awaitRestart"
    /\ Continue(i, AfterRestart(runs[i], ok))
    /\ UNCHANGED <<env, platform, vault, baker, ticks, skipped, vaultEdits>>
    /\ UNCHANGED <<dvars, ovars>>

\* process.on("SIGINT", () => { baker.stopAll(); process.exit(0); })
Sigint_noExit ==
    /\ mainPc = "scheduled"
    /\ baker = "running"
    /\ baker' = "stopped"
    /\ UNCHANGED <<env, platform, vault, mainPc, exitCode, ticks, skipped, runs, vaultEdits>>
    /\ UNCHANGED <<dvars, ovars>>

Sigint ==
    /\ mainPc = "scheduled"
    /\ baker' = "stopped"
    /\ mainPc' = "exited"
    /\ exitCode' = 0
    /\ UNCHANGED <<env, platform, vault, ticks, skipped, runs, vaultEdits>>
    /\ UNCHANGED <<dvars, ovars>>

\* the variables the platform may hold: unique keys, in any order
PlatformStates ==
    {[i \in 1..Len(l) |->
         [_id |-> PlatformId(i), key |-> l[i][1], value |-> l[i][2], readonly |-> FALSE]] :
        l \in {q \in SeqsUpTo(SyncKeys \X Values, Cardinality(SyncKeys)) :
                  \A i, j \in 1..Len(q) : q[i][1] = q[j][1] => i = j}}

\* what the vault may hold: a malformed value, or a payload of assignments.
\* A key is assigned once here: repeated assignments are the parser's matter
\* (SpecParse), and parsing a payload with repeats gives what parsing some
\* payload without repeats gives.
VaultStates ==
    {[hasValue |-> FALSE, value |-> << >>]} \cup
    {[hasValue |-> TRUE, value |-> l] :
        l \in {q \in SeqsUpTo(SyncKeys \X Values, MaxLines) :
                  \A i, j \in 1..Len(q) : q[i][1] = q[j][1] => i = j}}

\* the contents an edit leaves in the vault: a new payload assigning "A"
EditedVaults ==
    {[hasValue |-> TRUE, value |-> << <<"A", v>> >>] : v \in Values}

\* the owner of the vault changes its content while the scheduler waits
\* for the next tick. The vault is only observed by the read of a cycle, so
\* an edit made during a cycle is seen as one made before or after it.
VaultEdit ==
    /\ mainPc = "scheduled"
    /\ runs # << >>
    /\ InFlight = {}
    /\ vaultEdits < MaxEdits
    /\ vaultEdits' = vaultEdits + 1
    /\ vault' \in EditedVaults \ {vault}
    /\ UNCHANGED <<env, platform, mainPc, exitCode, baker, ticks, skipped, runs>>
    /\ UNCHANGED <<dvars, ovars>>

\* Bun.env: each setting is absent or present
EnvStates ==
    [ZEABUR_API_KEY : {"", "key"}, ZEABUR_SERVICE_ID : {"", "svc"},
     ZEABUR_ENV_ID : {"", "env"}, VAULT_HUB : BOOLEAN,
     CRON_SCHEDULE : {"", "*/5 * * * *"}]

Init ==
    /\ env \in EnvStates
    /\ platform \in PlatformStates
    /\ vault \in VaultStates
    /\ mainPc = "start"
    /\ exitCode = -1
    /\ baker = "none"
    /\ ticks = 0
    /\ skipped = 0
    /\ runs = << >>
    /\ vaultEdits = 0
    /\ IdleDiff
    /\ IdleParse
    /\ IdleOps
    /\ IdleNotify
    /\ IdleCreate

Next ==
    \/ MainSingle
    \/ MainScheduled
    \/ TickRun
    \/ TickSkip
    \/ \E i \in 1..Len(runs), ok \in BOOLEAN : ReadReturns(i, ok)
    \/ \E i \in 1..Len(runs), ok \in BOOLEAN : VaultReturns(i, ok)
    \/ \E i \in 1..Len(runs), ok \in BOOLEAN : ApplyReturns(i, ok)
    \/ \E i \in 1..Len(runs), ok \in BOOLEAN : RestartReturns(i, ok)
    \/ Sigint
    \/ VaultEdit

Spec == Init /\ [][Next]_vars

(***************************************************************************)
(* SpecOps: the collaborator operations called on their own, under every   *)
(* process environment.  Each call is a record as in a cycle; it runs up   *)
(* to its request, and ends when the request is answered.                  *)
(***************************************************************************)
\* the snapshots given to updateZeaburVariables
OpArguments ==
    {parseEnvToVariables(l) : l \in {<< >>, << <<"A", "1">> >>}}

OpsInit ==
    /\ env \in EnvStates
    /\ platform = << >>
    /\ vault = [hasValue |-> FALSE, value |-> << >>]
    /\ mainPc = "start"
    /\ exitCode = -1
    /\ baker = "none"
    /\ ticks = 0
    /\ skipped = 0
    /\ runs = << >>
    /\ vaultEdits = 0
    /\ ops = << >>
    /\ IdleDiff
    /\ IdleParse
    /\ IdleNotify
    /\ IdleCreate

OpCalled(r) ==
    /\ Len(ops) < MaxOps
    /\ ops' = Append(ops, r)
    /\ UNCHANGED <<dvars, svars, pvars, nvars, cvars>>

OpGetZeaburVariables == OpCalled(CallGetZeaburVariables(NewRun))

OpUpdateZeaburVariables ==
    \E variables \in OpArguments :
        OpCalled(CallUpdateZeaburVariables(
                     [NewRun EXCEPT !.parsedVaultVariables = variables]))

OpRestartZeaburService == OpCalled(CallRestartZeaburService(NewRun))

OpGetVaultHubVault == OpCalled(CallGetVaultHubVault(NewRun))

\* the request of the operation is answered: it returns, or rejects
OpReturns(i, ok) ==
    /\ ops[i].pc \in {"awaitRead", "awaitVault", "awaitApply", "awaitRestart"}
    /\ ops' = [ops EXCEPT ![i] =
                   IF ok THEN [Settled(@, ok) EXCEPT !.pc = "returned", !.result = "object"]
                   ELSE Throw(Settled(@, ok), "transport")]
    /\ UNCHANGED <<dvars, svars, pvars, nvars, cvars>>

OpsNext ==
    \/ OpGetZeaburVariables
    \/ OpUpdateZeaburVariables
    \/ OpRestartZeaburService
    \/ OpGetVaultHubVault
    \/ \E i \in 1..Len(ops), ok \in BOOLEAN : OpReturns(i, ok)

SpecOps == OpsInit /\ [][OpsNext]_vars

\* C15: an operation called without its settings throws a configuration
\* error having issued no request: each of the read, the update and the
\* restart when ZEABUR_API_KEY, ZEABUR_SERVICE_ID or ZEABUR_ENV_ID is
\* absent, the vault fetch when the vault's settings are absent; with its
\* settings the operation issues its one request; and no operation is
\* invoked or requested a second time.
PlatformOps == {"getZeaburVariables", "updateZeaburVariables", "restartZeaburService"}

ConfigMissing(op) ==
    IF op \in PlatformOps
    THEN env.ZEABUR_API_KEY = "" \/ env.ZEABUR_SERVICE_ID = "" \/ env.ZEABUR_ENV_ID = ""
    ELSE ~env.VAULT_HUB

C15_ConfigErrorBeforeRequest ==
    \A i \in 1..Len(ops) :
        LET r == ops[i]
        IN  /\ Len(r.calls) = 1
            /\ Len(r.requests) <= 1
            /\ ConfigMissing(r.calls[1]) =>
                   /\ r.pc = "thrown"
                   /\ r.error = "config"
                   /\ r.requests = << >>
            /\ ~ConfigMissing(r.calls[1]) =>
                   /\ Len(r.requests) = 1
                   /\ r.error # "config"

\* the restart is called with the service identifier missing, and the
\* vault fetch is called without the vault's settings
C15_Witness ==
    /\ env.ZEABUR_API_KEY # "" /\ env.ZEABUR_SERVICE_ID = "" /\ env.ZEABUR_ENV_ID # ""
    /\ ~env.VAULT_HUB
    /\ Len(ops) = 2
    /\ ops[1].calls = <<"restartZeaburService">> /\ ops[1].pc = "thrown"
    /\ ops[2].calls = <<"getVaultHubVault">> /\ ops[2].pc = "thrown"

(***************************************************************************)
(* notifier/bark.ts, notifier/index.ts: sendNotification                   *)
(*                                                                         *)
(* A URL is the sequence of its parts: "h" stands for a scheme and host,   *)
(* "/" for a slash.  sendNotification is cut at its one await: the call    *)
(* runs up to Promise.allSettled, and it goes on when the sends have       *)
(* settled.                                                                *)
(***************************************************************************)
\* "https://api.day.app"
DefaultServerUrl == <<"d">>

\* getBarkConfig(): null without BARK_KEY
getBarkConfig(e) ==
    IF e.BARK_KEY = ""
    THEN [found |-> FALSE, key |-> "", serverUrl |-> << >>, sound |-> "", group |-> ""]
    ELSE [found |-> TRUE, key |-> e.BARK_KEY,
          serverUrl |-> IF e.BARK_SERVER_URL = << >> THEN DefaultServerUrl
                        ELSE e.BARK_SERVER_URL,
          sound |-> e.BARK_SOUND, group |-> e.BARK_GROUP]

\* new BarkNotifier(): throws when there is no configuration
BarkNotifier(e) ==
    LET config == getBarkConfig(e)
    IN  [thrown |-> ~config.found, kind |-> "bark", config |-> config]

\* this.config.serverUrl.replace(/\/+$/, "")
RECURSIVE StripTrailingSlashes(_)
StripTrailingSlashes(url) ==
    IF url # << >> /\ url[Len(url)] = "/"
    THEN StripTrailingSlashes(SubSeq(url, 1, Len(url) - 1))
    ELSE url

\* BarkNotifier.send, up to fetch: the endpoint and the fields of the body
BarkRequest(config, payload) ==
    [endpoint |-> StripTrailingSlashes(config.serverUrl) \o <<"/", "push">>,
     body |-> {<<"device_key", config.key>>, <<"title", payload.title>>,
               <<"body", payload.body>>}
              \cup (IF config.sound # "" THEN {<<"sound", config.sound>>} ELSE {})
              \cup (IF config.group # "" THEN {<<"group", config.group>>} ELSE {})]

\* what becomes of a fetch: an answer that is ok and parses, an answer whose
\* status is not ok, a network failure, an answer whose JSON does not parse
FetchOutcomes == {"ok", "status", "network", "json"}

\* the promise of send: it rejects on everything but "ok"
SendStatus(outcome) == IF outcome = "ok" THEN "fulfilled" ELSE "rejected"

\* sendNotification: the providers enabled by the environment
EnabledProviders(e) ==
    IF e.BARK_KEY # ""
    THEN LET provider == BarkNotifier(e)
         IN  IF provider.thrown THEN << >> ELSE <<provider>>
    ELSE << >>

\* await Promise.allSettled(...): goes on when no promise is pending, and
\* never rejects
AllSettled_all(promises) ==
    [settled |-> \/ \E k \in 1..Len(promises) : promises[k].status = "rejected"
                 \/ \A k \in 1..Len(promises) : promises[k].status # "pending",
     rejects |-> \E k \in 1..Len(promises) : promises[k].status = "rejected"]

AllSettled(promises) ==
    [settled |-> \A k \in 1..Len(promises) : promises[k].status # "pending",
     rejects |-> FALSE]

\* results.forEach: the indices of the rejected results, in order
RECURSIVE Rejected(_, _)
Rejected(rs, k) ==
    IF k > Len(rs) THEN << >>
    ELSE (IF rs[k].status = "rejected" THEN <<k>> ELSE << >>) \o Rejected(rs, k + 1)

NotificationPayloads ==
    {[title |-> "failed", body |-> "error"],
     [title |-> "sync", body |-> "no changes"],
     [title |-> "success", body |-> "changes"]}

BarkEnvStates ==
    [BARK_KEY : {"", "k"},
     BARK_SERVER_URL : {<< >>, <<"h">>, <<"h", "/">>, <<"h", "/", "/">>},
     BARK_SOUND : {"", "bell"},
     BARK_GROUP : {"", "sync"}]

NotifyInit ==
    /\ nenv \in BarkEnvStates
    /\ npc = "idle"
    /\ npayload \in NotificationPayloads
    /\ providers = << >>
    /\ results = << >>
    /\ logged = << >>
    /\ Idle
    /\ IdleDiff
    /\ IdleParse
    /\ IdleOps
    /\ IdleCreate

\* sendNotification(payload), up to its await
SendNotification ==
    /\ npc = "idle"
    /\ providers' = EnabledProviders(nenv)
    /\ results' = [k \in 1..Len(providers') |->
                      [status |-> "pending", reason |-> "",
                       request |-> BarkRequest(providers'[k].config, npayload)]]
    /\ npc' = IF providers' = << >> THEN "returned" ELSE "awaitSends"
    /\ UNCHANGED <<nenv, npayload, logged>>
    /\ UNCHANGED <<dvars, svars, pvars, opvars, cvars>>

\* the fetch of the send k is answered; sendNotification goes on when the
\* await lets it
SendSettles(k, outcome) ==
    /\ npc = "awaitSends"
    /\ results[k].status = "pending"
    /\ results' = [results EXCEPT ![k].status = SendStatus(outcome),
                                  ![k].reason = IF outcome = "ok" THEN "" ELSE outcome]
    /\ LET join == AllSettled(results')
       IN  IF join.rejects THEN npc' = "thrown" /\ UNCHANGED logged
           ELSE IF join.settled
           THEN npc' = "returned" /\ logged' = Rejected(results', 1)
           ELSE UNCHANGED <<npc, logged>>
    /\ UNCHANGED <<nenv, npayload, providers>>
    /\ UNCHANGED <<dvars, svars, pvars, opvars, cvars>>

NotifyNext ==
    \/ SendNotification
    \/ \E k \in 1..Len(results), outcome \in FetchOutcomes : SendSettles(k, outcome)

SpecNotify == NotifyInit /\ [][NotifyNext]_vars

Undefined == "undefined"

FailedTitle == "Zeabur Env Sync Failed"

NoChangesTitle == "Zeabur Env Sync"

SuccessTitle == "Zeabur Env Sync Success"

\* changesCount
ChangesCount(diff) ==
    [added |-> Len(diff.toAdd),
     updated |-> Len(diff.toUpdate),
     deleted |-> Len(diff.toDelete),
     total |-> Len(diff.toAdd) + Len(diff.toUpdate) + Len(diff.toDelete)]

\* `${label}: ${n} variable${n > 1 ? "s" : ""}`, pushed if n > 0
ChangeLine(label, n) ==
    IF n > 0
    THEN <<label \o ": " \o ToString(n) \o " variable" \o (IF n > 1 THEN "s" ELSE "")>>
    ELSE << >>

\* if (!success && error)
ErrorNotification_anyFailure(success, error) == ~success

ErrorNotification(success, error) == ~success /\ error.given

createNotificationPayload(diff, success, error, timestamp) ==
    LET changesCount == ChangesCount(diff)
        stamp == "[" \o timestamp \o "]"
        text ==
            IF ErrorNotification(success, error)
            THEN [title |-> FailedTitle,
                  summary |-> "Sync failed with error",
                  body |-> <<"Error: " \o error.message, stamp>>]
            ELSE IF changesCount.total = 0
            THEN [title |-> NoChangesTitle,
                  summary |-> "No changes needed",
                  body |-> <<"No changes needed", stamp>>]
            ELSE [title |-> SuccessTitle,
                  summary |-> ToString(changesCount.total) \o " changes applied",
                  body |-> ChangeLine("Added", changesCount.added)
                           \o ChangeLine("Updated", changesCount.updated)
                           \o ChangeLine("Deleted", changesCount.deleted)
                           \o <<"Total: " \o ToString(changesCount.total)
                                  \o " changes applied">>
                           \o <<stamp>>]
    IN  [title |-> text.title,
         body |-> text.body,
         summary |-> text.summary,
         changesCount |-> changesCount,
         timestamp |-> timestamp,
         success |-> success,
         error |-> IF error.given THEN error.message ELSE Undefined]

\* the diffs given to createNotificationPayload: each list of every length
\* up to MaxChanges
PayloadDiffs ==
    {VariablesDiff(
         [i \in 1..a |-> EnvironmentVariable(ParserId(i), "N" \o ToString(i), "1")],
         [i \in 1..u |-> [key |-> "U" \o ToString(i), oldValue |-> "1", newValue |-> "2"]],
         [i \in 1..d |-> EnvironmentVariable(PlatformId(i), "D" \o ToString(i), "1")]) :
        a \in 0..MaxChanges, u \in 0..MaxChanges, d \in 0..MaxChanges}

PayloadErrors == {[given |-> FALSE, message |-> ""], [given |-> TRUE, message |-> "timeout"]}

Timestamps == {"2025-01-01T00:00:00.000Z", "2025-01-01T00:05:00.000Z"}

PayloadInit ==
    /\ cpc = "input"
    /\ cdiff \in PayloadDiffs
    /\ csuccess \in BOOLEAN
    /\ cerror \in PayloadErrors
    /\ cnow \in Timestamps
    /\ cpayload = << >>
    /\ Idle
    /\ IdleDiff
    /\ IdleParse
    /\ IdleOps
    /\ IdleNotify

CreatePayload ==
    /\ cpc = "input"
    /\ cpayload' = createNotificationPayload(cdiff, csuccess, cerror, cnow)
    /\ cpc' = "done"
    /\ UNCHANGED <<cdiff, csuccess, cerror, cnow>>
    /\ UNCHANGED <<dvars, svars, pvars, opvars, nvars>>

PayloadNext == CreatePayload

SpecPayload == PayloadInit /\ [][PayloadNext]_vars

\* C23: the payload counts each list of the diff by its length and the
\* total by their sum; it carries the failure message when success is false
\* and an error is given, otherwise the no-changes message when the total
\* is 0, otherwise the success message, and the title, the summary and the
\* first line of the body are those of that one outcome; its success field
\* is the success argument.
OutcomeOf(payload) ==
    {o \in {"failure", "nochanges", "success"} :
        \/ /\ o = "failure"
           /\ payload.title = FailedTitle
           /\ payload.summary = "Sync failed with error"
           /\ payload.body[1] = "Error: " \o cerror.message
        \/ /\ o = "nochanges"
           /\ payload.title = NoChangesTitle
           /\ payload.summary = "No changes needed"
           /\ payload.body[1] = "No changes needed"
        \/ /\ o = "success"
           /\ payload.title = SuccessTitle
           /\ payload.summary =
                  ToString(payload.changesCount.total) \o " changes applied"
           /\ payload.body[Len(payload.body) - 1] =
                  "Total: " \o ToString(payload.changesCount.total) \o " changes applied"}

C23_PayloadOutcome ==
    cpc = "done" =>
        /\ cpayload.changesCount.added = Len(cdiff.toAdd)
        /\ cpayload.changesCount.updated = Len(cdiff.toUpdate)
        /\ cpayload.changesCount.deleted = Len(cdiff.toDelete)
        /\ cpayload.changesCount.total =
               Len(cdiff.toAdd) + Len(cdiff.toUpdate) + Len(cdiff.toDelete)
        /\ cpayload.success = csuccess
        /\ OutcomeOf(cpayload) =
               IF ~csuccess /\ cerror.given THEN {"failure"}
               ELSE IF cpayload.changesCount.total = 0 THEN {"nochanges"}
               ELSE {"success"}

\* success is false and no error is given: the success message, for a diff
\* with changes
C23_Witness ==
    /\ cpc = "done"
    /\ ~csuccess
    /\ ~cerror.given
    /\ Len(cdiff.toAdd) = 2
    /\ cpayload.title = SuccessTitle
    /\ cpayload.body[1] = "Added: 2 variables"
    /\ ~cpayload.success

(***************************************************************************)
(* Claims on the sync cycle and the scheduler (Spec)                       *)
(***************************************************************************)
Invoked(r, op) == \E k \in 1..Len(r.calls) : r.calls[k] = op

CallIndex(r, op) == CHOOSE k \in 1..Len(r.calls) : r.calls[k] = op

Sent(r, op) == \E k \in 1..Len(r.requests) : r.requests[k].op = op

RequestIs(r, op, status) ==
    \E k \in 1..Len(r.requests) : r.requests[k] = [op |-> op, status |-> status]

Changes(r) == r.reported /\ TotalChanges(r.diff) > 0

\* C3: a cycle whose diff has its three lists empty invokes neither
\* updateZeaburVariables nor restartZeaburService, sends neither request,
\* and ends by returning no result; a single-shot process then exits with 0.
C3_NoOpShortCircuit ==
    \A i \in 1..Len(runs) :
        (runs[i].reported /\ TotalChanges(runs[i].diff) = 0) =>
            /\ ~Invoked(runs[i], "updateZeaburVariables")
            /\ ~Invoked(runs[i], "restartZeaburService")
            /\ ~Sent(runs[i], "updateVariables")
            /\ ~Sent(runs[i], "restartService")
            /\ runs[i].pc = "returned"
            /\ runs[i].result = "undefined"
            /\ (~Scheduled => exitCode = 0)

\* a cycle that found the platform's non-empty variables equal to the vault's
C3_Witness ==
    \E i \in 1..Len(runs) :
        /\ runs[i].reported
        /\ TotalChanges(runs[i].diff) = 0
        /\ Len(runs[i].existingVariables) > 0
        /\ runs[i].pc = "returned"

\* C4: in a cycle with a non-empty diff, restartZeaburService is invoked
\* exactly when the update request has succeeded: at most once, after the
\* invocation of updateZeaburVariables, its request right after the update
\* request was answered with success, and never when the update failed or is
\* still pending.
C4_ApplyThenRestart ==
    \A i \in 1..Len(runs) :
        LET r == runs[i]
        IN  /\ Invoked(r, "restartZeaburService") <=> RequestIs(r, "updateVariables", "ok")
            /\ Cardinality({k \in 1..Len(r.calls) : r.calls[k] = "restartZeaburService"}) <= 1
            /\ Invoked(r, "restartZeaburService") =>
                   /\ Changes(r)
                   /\ Invoked(r, "updateZeaburVariables")
                   /\ CallIndex(r, "updateZeaburVariables")
                          < CallIndex(r, "restartZeaburService")
            /\ \A k \in 1..Len(r.requests) :
                   r.requests[k].op = "restartService" =>
                       /\ k > 1
                       /\ r.requests[k - 1] = [op |-> "updateVariables", status |-> "ok"]

\* a cycle whose update succeeded and whose restart request is out
C4_Witness ==
    \E i \in 1..Len(runs) :
        /\ Changes(runs[i])
        /\ RequestIs(runs[i], "updateVariables", "ok")
        /\ RequestIs(runs[i], "restartService", "pending")

\* C5: a cycle in which changes exist and both the update and the restart
\* have completed invokes sendNotification, after both.
C5_NotificationSent ==
    \A i \in 1..Len(runs) :
        runs[i].result = "object" =>
            /\ Invoked(runs[i], "sendNotification")
            /\ CallIndex(runs[i], "restartZeaburService")
                   < CallIndex(runs[i], "sendNotification")

\* C6: in scheduled mode at most one cycle is in flight; every tick either
\* started a cycle or was skipped, so no tick is kept for later; and a tick
\* that fires while a cycle is in flight starts nothing and is counted as
\* skipped.
C6_OverrunProtection ==
    /\ [](Scheduled => /\ Cardinality(InFlight) <= 1
                       /\ Len(runs) + skipped = ticks)
    /\ [][(ticks' = ticks + 1 /\ InFlight # {}) =>
              (runs' = runs /\ skipped' = skipped + 1)]_vars

\* a tick was skipped and the cycle it met is still in flight
C6_Witness ==
    /\ Scheduled
    /\ skipped >= 1
    /\ InFlight # {}

\* C7: in scheduled mode an error of a cycle is caught and logged by
\* runSyncWithErrorHandling: the process never exits with status 1, it is
\* still scheduling after the failure unless it was interrupted, and a
\* tick that fires when no cycle is in flight starts a new cycle, whatever
\* the earlier cycles came to.
C7_FailureIsolation ==
    /\ [](Scheduled =>
            /\ exitCode # 1
            /\ \A i \in 1..Len(runs) :
                   runs[i].pc = "thrown" =>
                       /\ runs[i].caught = "logged"
                       /\ mainPc = "scheduled" \/ baker = "stopped")
    /\ [][(Scheduled /\ ticks' = ticks + 1 /\ InFlight = {}) =>
              (Len(runs') = Len(runs) + 1 /\ runs'[Len(runs')].calls # << >>)]_vars

\* a cycle failed at its update request and the next tick started a cycle
C7_Witness ==
    /\ Scheduled
    /\ Len(runs) >= 2
    /\ runs[1].pc = "thrown"
    /\ RequestIs(runs[1], "updateVariables", "error")
    /\ runs[2].pc = "awaitVault"

\* C8: a cycle whose platform read, vault fetch or parse fails ends with
\* that error without invoking updateZeaburVariables or
\* restartZeaburService; a cycle whose update fails ends with that error
\* without invoking restartZeaburService.
C8_FailureAborts ==
    \A i \in 1..Len(runs) :
        LET r == runs[i]
            parseFails == RequestIs(r, "getVault", "ok") /\ ~r.vaultVariables.hasValue
        IN  /\ (RequestIs(r, "getVariables", "error")
                 \/ RequestIs(r, "getVault", "error") \/ parseFails) =>
                   /\ r.pc = "thrown"
                   /\ ~Invoked(r, "updateZeaburVariables")
                   /\ ~Invoked(r, "restartZeaburService")
            /\ (RequestIs(r, "getVariables", "error")
                 \/ RequestIs(r, "getVault", "error")) => r.error = "transport"
            /\ parseFails => r.error = "parse"
            /\ RequestIs(r, "updateVariables", "error") =>
                   /\ r.pc = "thrown"
                   /\ ~Invoked(r, "restartZeaburService")

\* a cycle whose platform read failed
C8_Witness ==
    \E i \in 1..Len(runs) :
        /\ RequestIs(runs[i], "getVariables", "error")
        /\ runs[i].pc = "thrown"

\* C9: with the vault left unchanged, after a cycle that completed with a
\* non-empty diff the platform's variables are in line with the vault, and a
\* later cycle computes an empty diff and invokes neither update nor restart.
C9_Converges ==
    \A i \in 1..Len(runs) :
        (runs[i].result = "object" /\ vaultEdits = 0) =>
            /\ TotalChanges(compareVariables(MinimalFields(platform),
                                             parseEnvToVariables(vault.value))) = 0
            /\ \A j \in (i + 1)..Len(runs) :
                   runs[j].reported =>
                       /\ TotalChanges(runs[j].diff) = 0
                       /\ ~Invoked(runs[j], "updateZeaburVariables")
                       /\ ~Invoked(runs[j], "restartZeaburService")

\* C10: when the diff is non-empty updateZeaburVariables is invoked with
\* the whole parsed vault snapshot, the data of the request sent holds
\* exactly its key-value pairs, and no request other than the read, the
\* vault fetch, the update and the restart is issued.
C10_FullSnapshotSent ==
    \A i \in 1..Len(runs) :
        Sent(runs[i], "updateVariables") =>
            /\ runs[i].applyArg = parseEnvToVariables(runs[i].vaultVariables.value)
            /\ {runs[i].body[k] : k \in 1..Len(runs[i].body)}
                   = PairsOf(parseEnvToVariables(runs[i].vaultVariables.value))
            /\ \A k \in 1..Len(runs[i].requests) :
                   runs[i].requests[k].op \in
                       {"getVariables", "getVault", "updateVariables", "restartService"}

\* C17: a cycle that computed a diff has printed a report whose lines name
\* exactly the keys of toAdd, of toUpdate and of toDelete, and printed it
\* before updateZeaburVariables was invoked, whatever became of the update
\* and of the restart; a cycle that failed before the diff has printed none.
ReportedKeys(r, sign) ==
    {r.report[n].key : n \in {m \in 1..Len(r.report) : r.report[m].sign = sign}}

C17_ReportPrecedesApply ==
    \A i \in 1..Len(runs) :
        LET r == runs[i]
        IN  /\ r.reported =>
                   /\ ReportedKeys(r, "+") = KeysOf(r.diff.toAdd)
                   /\ ReportedKeys(r, "~") = KeysOf(r.diff.toUpdate)
                   /\ ReportedKeys(r, "-") = KeysOf(r.diff.toDelete)
                   /\ Len(r.report) = TotalChanges(r.diff)
                   /\ Invoked(r, "updateZeaburVariables") =>
                          r.reportAt < CallIndex(r, "updateZeaburVariables")
            /\ ~r.reported =>
                   /\ r.report = << >>
                   /\ ~Invoked(r, "updateZeaburVariables")

\* the update request fails after a report with a deletion was printed
C17_Witness ==
    \E i \in 1..Len(runs) :
        /\ runs[i].pc = "thrown"
        /\ RequestIs(runs[i], "updateVariables", "error")
        /\ \E n \in 1..Len(runs[i].report) : runs[i].report[n].sign = "-"

\* C19: what a cycle computes comes from its own two reads: the snapshot it
\* keeps is what the platform held when its read returned, the payload it
\* keeps is what the vault held when its fetch returned, its parsed
\* snapshot, its diff and the argument and data of its update are computed
\* from these two, and a cycle that has ended is never touched again.
FromOwnReads(r) ==
    /\ RequestIs(r, "getVariables", "ok")
    /\ RequestIs(r, "getVault", "ok")
    /\ r.parsedVaultVariables = parseEnvToVariables(r.vaultVariables.value)
    /\ r.diff = compareVariables(r.existingVariables, r.parsedVaultVariables)
    /\ Sent(r, "updateVariables") =>
           /\ r.applyArg = r.parsedVaultVariables
           /\ r.data = DataMap(r.parsedVaultVariables)

ReadsAnew ==
    \A i \in 1..Len(runs) :
        /\ (runs[i].pc = "awaitRead" /\ runs'[i].pc \notin {"awaitRead", "thrown"}) =>
               runs'[i].existingVariables = MinimalFields(platform)
        /\ (runs[i].pc = "awaitVault" /\ runs'[i].reported) =>
               runs'[i].vaultVariables = vault
        /\ runs[i].pc \in {"returned", "thrown"} => runs'[i] = runs[i]

C19_NoCrossCycleState ==
    /\ [](\A i \in 1..Len(runs) : runs[i].reported => FromOwnReads(runs[i]))
    /\ [][ReadsAnew]_vars

\* two cycles of one process that fetched different payloads
C19_Witness ==
    \E i, j \in 1..Len(runs) :
        /\ i < j
        /\ runs[i].reported /\ runs[j].reported
        /\ runs[i].vaultVariables # runs[j].vaultVariables
        /\ runs[i].diff # runs[j].diff

\* C12: the scheduler exists exactly when CRON_SCHEDULE is set and main has
\* run; without it main runs one cycle and no tick ever fires, the process
\* ends with status 0 exactly when that cycle has returned (with or without
\* changes) and with status 1 exactly when it has thrown, and has no status
\* while the cycle is in flight.
C12_ModeAndExitStatus ==
    /\ baker # "none" <=> (Scheduled /\ mainPc # "start")
    /\ mainPc = "scheduled" => Scheduled
    /\ mainPc = "single" => ~Scheduled
    /\ ~Scheduled =>
           /\ ticks = 0
           /\ Len(runs) = IF mainPc = "start" THEN 0 ELSE 1
           /\ Len(runs) = 1 =>
                  /\ runs[1].pc = "returned" <=> (mainPc = "exited" /\ exitCode = 0)
                  /\ runs[1].pc = "thrown" <=> (mainPc = "exited" /\ exitCode = 1)
                  /\ 1 \in InFlight <=> (mainPc = "single" /\ exitCode = -1)

\* a single-shot cycle whose update request failed: status 1
C12_Witness ==
    /\ ~Scheduled
    /\ Len(runs) = 1
    /\ RequestIs(runs[1], "updateVariables", "error")
    /\ mainPc = "exited"
    /\ exitCode = 1

\* C13: a cycle that has started runs to completion or to failure: when
\* the process has ended, every cycle it started has returned or thrown,
\* and none is left at a request it was waiting for.
C13_NoMidCycleCancellation ==
    mainPc = "exited" => InFlight = {}

\* C14: in scheduled mode the process has ended exactly when the scheduler
\* has been stopped, which only the interrupt handler does, and its status
\* is then 0; once the scheduler is stopped it stays stopped, no tick fires
\* and no cycle is started.
C14_CleanShutdown ==
    /\ [](Scheduled =>
             /\ mainPc = "exited" <=> baker = "stopped"
             /\ mainPc = "exited" => exitCode = 0)
    /\ [][baker = "stopped" =>
             /\ baker' = "stopped"
             /\ ticks' = ticks
             /\ Len(runs') = Len(runs)]_vars
    /\ [][(Scheduled /\ mainPc # "exited" /\ mainPc' = "exited") =>
             (baker = "running" /\ baker' = "stopped" /\ runs' = runs)]_vars

\* interrupted after a cycle, with a tick still to come
C14_Witness ==
    /\ Scheduled
    /\ mainPc = "exited"
    /\ exitCode = 0
    /\ baker = "stopped"
    /\ Len(runs) >= 1
    /\ ticks < MaxTicks

\* C18: the collaborator operations a cycle has invoked are an initial
\* part of: platform read, vault fetch, update, restart, so that none is
\* invoked twice; the same holds of the requests it has issued, and a
\* request that failed is the last one of its cycle.
CallOrder ==
    <<"getZeaburVariables", "getVaultHubVault",
      "updateZeaburVariables", "restartZeaburService">>

RequestOrder == <<"getVariables", "getVault", "updateVariables", "restartService">>

IsPrefix(s, t) == Len(s) <= Len(t) /\ \A k \in 1..Len(s) : s[k] = t[k]

C18_NoRetry ==
    \A i \in 1..Len(runs) :
        LET r == runs[i]
        IN  /\ IsPrefix(r.calls, CallOrder)
            /\ IsPrefix([k \in 1..Len(r.requests) |-> r.requests[k].op], RequestOrder)
            /\ Len(r.requests) <= Len(r.calls)
            /\ \A k \in 1..Len(r.requests) :
                   r.requests[k].status # "ok" => k = Len(r.requests)

\* all four operations were invoked and the restart request failed
C18_Witness ==
    \E i \in 1..Len(runs) :
        /\ runs[i].calls = CallOrder
        /\ RequestIs(runs[i], "restartService", "error")
        /\ runs[i].pc = "thrown"

====
